---- MODULE Spec2Model ----
(***************************************************************************)
(* The authorization-engine builder of internal/handlers                   *)
(* (handler_authz_builder.go): the AuthzBuilder's fields, one action per   *)
(* builder method, Build() and the Authz it returns, and the per-request   *)
(* strategy chain of the built Authz.                                      *)
(*                                                                         *)
(* Specifications: Spec (the builder assembled, then built), SpecAuthorize *)
(* (requests handled by a built engine), SpecFaults (requests with failing *)
(* collaborators or cancelled), SpecVerify (verifyObject on hosts),        *)
(* SpecRefresh (CookieSession authentications of one session over time)    *)
(* and SpecHeap (the builder used on after Build(), with the memory the    *)
(* strategy slices share).  SpecStartup is the storage provider's startup  *)
(* check (internal/storage/sql_provider.go, StartupCheck), one action per  *)
(* step of the function.                                                   *)
(*                                                                         *)
(* Durations are counted in seconds (Second == 1).  Strings the code       *)
(* parses or formats (the refresh policy, the session domain) are          *)
(* sequences of one-character strings; names the code only compares        *)
(* (implementation and strategy names) are plain strings.                  *)
(***************************************************************************)
EXTENDS Integers, Sequences, FiniteSets, TLC

VARIABLES
  b,      \* the AuthzBuilder: [config, strategies, impl]
  authz,  \* the Authz returned by the last Build(), or NoAuthz
  op,     \* history: the last call made on the builder before Build(),
          \* [name, arg]; for WithEndpointConfig also the implementation
          \* the builder held before the call (before); for WithConfig and
          \* WithAuthzConfig also the RefreshInterval held since
          \* WithEndpointConfig (before)
  fresh,  \* history: WithEndpointConfig ran and neither the config nor the
          \* strategies were touched by another call since
  res,    \* the last Authorize invocation of the built Authz, or NoRes
  session, \* the session the session collaborator stores for one cookie and
          \* the time of its clock, or NoSession
  startup, \* one invocation of SQLProvider.StartupCheck, or NoStartup:
          \* the provider's errOpen, the position in the function (pc), the
          \* locals i and err, the value returned (ret), and history: the
          \* number of Ping and Sleep calls made, whether a Ping succeeded,
          \* and the outcomes of SchemaEncryptionCheckKey and SchemaMigrate
  heap    \* the memory behind the strategy slices, or NoHeap: the backing
          \* arrays, the slice b.strategies is, and an Authz object Build()
          \* returned (any one of them), with the slice its strategies
          \* field is

vars == <<b, authz, op, fresh, res, session, heap, startup>>

-----------------------------------------------------------------------------
(* Bounds *)

\* Longest strategy list a builder, an endpoint configuration or a
\* WithStrategies call holds.
MaxStrategies == 2

\* Largest refresh interval (seconds) a call is made with; at most 9.
MaxInterval == 2

-----------------------------------------------------------------------------
(* Values *)

\* time.Second, the unit of every duration of the model.
Second == 1

Nil == [nil |-> TRUE]

\* AuthzImplementation values; AuthzImplUnset is the value of a builder's
\* impl field that no WithImplementation* call has set.
AuthzImplLegacy == "Legacy"
AuthzImplForwardAuth == "ForwardAuth"
AuthzImplAuthRequest == "AuthRequest"
AuthzImplUnset == "Unset"

\* AuthzImplementation.String(): the configuration's implementation names.
ImplString(impl) ==
  CASE impl = AuthzImplLegacy -> "legacy"
    [] impl = AuthzImplForwardAuth -> "forward-auth"
    [] impl = AuthzImplAuthRequest -> "auth-request"
    [] OTHER -> ""

\* The strategy names of an endpoint configuration.
AuthnStrategyCookieSession == "CookieSession"
AuthnStrategyHeaderAuthorization == "HeaderAuthorization"
AuthnStrategyHeaderProxyAuthorization == "HeaderProxyAuthorization"
AuthnStrategyHeaderAuthRequestProxyAuthorization == "HeaderAuthRequestProxyAuthorization"
AuthnStrategyHeaderLegacy == "HeaderLegacy"

\* The strategy constructors: a variant tag and, for CookieSession, the
\* refresh interval it is bound to.
NewCookieSessionAuthnStrategy(refreshInterval) ==
  [variant |-> "CookieSession", refreshInterval |-> refreshInterval]
NewHeaderAuthorizationAuthnStrategy == [variant |-> "HeaderAuthorization"]
NewHeaderProxyAuthorizationAuthnStrategy == [variant |-> "HeaderProxyAuthorization"]
NewHeaderAuthRequestProxyAuthorizationAuthnStrategy ==
  [variant |-> "HeaderAuthRequestProxyAuthorization"]
NewHeaderLegacyAuthnStrategy == [variant |-> "HeaderLegacy"]

\* schema.ProfileRefreshDisabled and schema.ProfileRefreshAlways.
ProfileRefreshDisabled == <<"d", "i", "s", "a", "b", "l", "e", "d">>
ProfileRefreshAlways == <<"a", "l", "w", "a", "y", "s">>

-----------------------------------------------------------------------------
(* utils.ParseDurationString: digits with an optional unit; anything else  *)
(* is an error, returned with the zero duration.                           *)

Digits == <<"0", "1", "2", "3", "4", "5", "6", "7", "8", "9">>

IsDigit(c) == \E i \in 1..Len(Digits) : Digits[i] = c

DigitVal(c) == (CHOOSE i \in 1..Len(Digits) : Digits[i] = c) - 1

RECURSIVE Atoi(_)
Atoi(s) ==
  IF s = <<>> THEN 0
  ELSE 10 * Atoi(SubSeq(s, 1, Len(s) - 1)) + DigitVal(s[Len(s)])

AllDigits(s) == \A i \in 1..Len(s) : IsDigit(s[i])

IsUnit(c) == c \in {"s", "m", "h"}

UnitSeconds(c) ==
  CASE c = "s" -> Second
    [] c = "m" -> 60 * Second
    [] c = "h" -> 3600 * Second

ParseDurationString(input) ==
  LET n == Len(input) IN
  IF n >= 1 /\ AllDigits(input)
    THEN [duration |-> Atoi(input) * Second, err |-> FALSE]
  ELSE IF n >= 2 /\ IsUnit(input[n]) /\ AllDigits(SubSeq(input, 1, n - 1))
    THEN [duration |-> Atoi(SubSeq(input, 1, n - 1)) * UnitSeconds(input[n]),
          err |-> FALSE]
  ELSE [duration |-> 0, err |-> n # 0]

-----------------------------------------------------------------------------
(* AuthzBuilder: the methods as functions of the builder (bb) they act on  *)

\* NewAuthzBuilder: only config.RefreshInterval is set.
NewAuthzBuilder ==
  [config |-> [RefreshInterval |-> Second * (-1), Domains |-> <<>>],
   strategies |-> <<>>,
   impl |-> AuthzImplUnset]

\* WithStrategies that keeps what the list held and adds its arguments.
WithStrategies_Append(bb, strategies) ==
  [bb EXCEPT !.strategies = bb.strategies \o strategies]

WithStrategies(bb, strategies) == [bb EXCEPT !.strategies = strategies]

\* WithStrategyCookie that binds Always whatever interval it is given.
WithStrategyCookie_Always(bb, refreshInterval) ==
  [bb EXCEPT !.strategies =
     Append(bb.strategies, NewCookieSessionAuthnStrategy(Second * 0))]

WithStrategyCookie(bb, refreshInterval) ==
  [bb EXCEPT !.strategies =
     Append(bb.strategies, NewCookieSessionAuthnStrategy(refreshInterval))]

WithStrategyAuthorization(bb) ==
  [bb EXCEPT !.strategies =
     Append(bb.strategies, NewHeaderAuthorizationAuthnStrategy)]

WithStrategyProxyAuthorization(bb) ==
  [bb EXCEPT !.strategies =
     Append(bb.strategies, NewHeaderProxyAuthorizationAuthnStrategy)]

WithImplementationLegacy(bb) == [bb EXCEPT !.impl = AuthzImplLegacy]

WithImplementationForwardAuth(bb) == [bb EXCEPT !.impl = AuthzImplForwardAuth]

WithImplementationAuthRequest(bb) == [bb EXCEPT !.impl = AuthzImplAuthRequest]

\* WithConfig, the switch on config.AuthenticationBackend.RefreshInterval;
\* the parser's error is dropped.
ConfigRefreshInterval_DisabledAsAlways(policy) ==
  CASE policy = ProfileRefreshDisabled -> Second * 0
    [] policy = ProfileRefreshAlways -> Second * 0
    [] OTHER -> ParseDurationString(policy).duration

ConfigRefreshInterval(policy) ==
  CASE policy = ProfileRefreshDisabled -> Second * (-1)
    [] policy = ProfileRefreshAlways -> Second * 0
    [] OTHER -> ParseDurationString(policy).duration

\* WithConfig, the Domains literal: fmt.Sprintf(".%s", config.Session.Domain).
ConfigDomains_NoDot(domain) == << [Name |-> domain, PortalURL |-> Nil] >>

ConfigDomains(domain) == << [Name |-> <<".">> \o domain, PortalURL |-> Nil] >>

\* WithConfig that takes a nil configuration for an empty one.
WithConfig_NilResets(bb, config) ==
  IF config = Nil
    THEN [bb EXCEPT !.config = [RefreshInterval |-> Second * 0, Domains |-> <<>>]]
  ELSE [bb EXCEPT !.config =
          [RefreshInterval |->
             ConfigRefreshInterval(config.AuthenticationBackend.RefreshInterval),
           Domains |-> ConfigDomains(config.Session.Domain)]]

WithConfig(bb, config) ==
  IF config = Nil THEN bb
  ELSE [bb EXCEPT !.config =
          [RefreshInterval |->
             ConfigRefreshInterval(config.AuthenticationBackend.RefreshInterval),
           Domains |-> ConfigDomains(config.Session.Domain)]]

\* WithAuthzConfig that also rebinds the CookieSession strategies of the list.
WithAuthzConfig_RebindCookies(bb, config) ==
  [bb EXCEPT !.config = config,
             !.strategies =
               [i \in 1..Len(bb.strategies) |->
                  IF bb.strategies[i].variant = "CookieSession"
                    THEN NewCookieSessionAuthnStrategy(config.RefreshInterval)
                    ELSE bb.strategies[i]]]

WithAuthzConfig(bb, config) == [bb EXCEPT !.config = config]

\* WithEndpointConfig, the switch on config.Implementation.
EndpointImplementation_DefaultForwardAuth(bb, implementation) ==
  CASE implementation = ImplString(AuthzImplForwardAuth) ->
         WithImplementationForwardAuth(bb)
    [] implementation = ImplString(AuthzImplAuthRequest) ->
         WithImplementationAuthRequest(bb)
    [] implementation = ImplString(AuthzImplLegacy) ->
         WithImplementationLegacy(bb)
    [] OTHER -> WithImplementationForwardAuth(bb)

EndpointImplementation_KeepSelected(bb, implementation) ==
  CASE implementation = ImplString(AuthzImplForwardAuth) ->
         WithImplementationForwardAuth(bb)
    [] implementation = ImplString(AuthzImplAuthRequest) ->
         WithImplementationAuthRequest(bb)
    [] OTHER -> IF bb.impl = AuthzImplUnset THEN WithImplementationLegacy(bb)
                ELSE bb

EndpointImplementation(bb, implementation) ==
  CASE implementation = ImplString(AuthzImplForwardAuth) ->
         WithImplementationForwardAuth(bb)
    [] implementation = ImplString(AuthzImplAuthRequest) ->
         WithImplementationAuthRequest(bb)
    [] OTHER -> WithImplementationLegacy(bb)

\* WithEndpointConfig, one iteration of the loop over config.AuthnStrategies.
EndpointStrategy_CookieDisabled(bb, strategy) ==
  CASE strategy.Name = AuthnStrategyCookieSession ->
         [bb EXCEPT !.strategies =
            Append(@, NewCookieSessionAuthnStrategy(Second * (-1)))]
    [] strategy.Name = AuthnStrategyHeaderAuthorization ->
         [bb EXCEPT !.strategies = Append(@, NewHeaderAuthorizationAuthnStrategy)]
    [] strategy.Name = AuthnStrategyHeaderProxyAuthorization ->
         [bb EXCEPT !.strategies =
            Append(@, NewHeaderProxyAuthorizationAuthnStrategy)]
    [] strategy.Name = AuthnStrategyHeaderAuthRequestProxyAuthorization ->
         [bb EXCEPT !.strategies =
            Append(@, NewHeaderAuthRequestProxyAuthorizationAuthnStrategy)]
    [] strategy.Name = AuthnStrategyHeaderLegacy ->
         [bb EXCEPT !.strategies = Append(@, NewHeaderLegacyAuthnStrategy)]
    [] OTHER -> bb

EndpointStrategy(bb, strategy) ==
  CASE strategy.Name = AuthnStrategyCookieSession ->
         [bb EXCEPT !.strategies =
            Append(@, NewCookieSessionAuthnStrategy(bb.config.RefreshInterval))]
    [] strategy.Name = AuthnStrategyHeaderAuthorization ->
         [bb EXCEPT !.strategies = Append(@, NewHeaderAuthorizationAuthnStrategy)]
    [] strategy.Name = AuthnStrategyHeaderProxyAuthorization ->
         [bb EXCEPT !.strategies =
            Append(@, NewHeaderProxyAuthorizationAuthnStrategy)]
    [] strategy.Name = AuthnStrategyHeaderAuthRequestProxyAuthorization ->
         [bb EXCEPT !.strategies =
            Append(@, NewHeaderAuthRequestProxyAuthorizationAuthnStrategy)]
    [] strategy.Name = AuthnStrategyHeaderLegacy ->
         [bb EXCEPT !.strategies = Append(@, NewHeaderLegacyAuthnStrategy)]
    [] OTHER -> bb

\* WithEndpointConfig, the loop: the entries in list order.
RECURSIVE EndpointStrategies(_, _)
EndpointStrategies(bb, list) ==
  IF list = <<>> THEN bb
  ELSE EndpointStrategies(EndpointStrategy(bb, Head(list)), Tail(list))

\* WithEndpointConfig, b.WithStrategies() and the loop after it.
EndpointReplaceStrategies_NoClear(bb, list) == EndpointStrategies(bb, list)

EndpointReplaceStrategies(bb, list) ==
  EndpointStrategies(WithStrategies(bb, <<>>), list)

WithEndpointConfig(bb, config) ==
  EndpointReplaceStrategies(
    EndpointImplementation(bb, config.Implementation), config.AuthnStrategies)

-----------------------------------------------------------------------------
(* Build *)

\* The value of a function field of Authz that nothing was assigned to.
NilFunc == "nil"

\* Build, the switch on b.impl that installs the default strategies.
DefaultStrategies_CookieFirst(impl, refreshInterval) ==
  CASE impl = AuthzImplLegacy ->
         << NewCookieSessionAuthnStrategy(refreshInterval),
            NewHeaderLegacyAuthnStrategy >>
    [] impl = AuthzImplAuthRequest ->
         << NewCookieSessionAuthnStrategy(refreshInterval),
            NewHeaderAuthRequestProxyAuthorizationAuthnStrategy >>
    [] OTHER ->
         << NewCookieSessionAuthnStrategy(refreshInterval),
            NewHeaderProxyAuthorizationAuthnStrategy >>

DefaultStrategies(impl, refreshInterval) ==
  CASE impl = AuthzImplLegacy ->
         << NewHeaderLegacyAuthnStrategy,
            NewCookieSessionAuthnStrategy(refreshInterval) >>
    [] impl = AuthzImplAuthRequest ->
         << NewHeaderAuthRequestProxyAuthorizationAuthnStrategy,
            NewCookieSessionAuthnStrategy(refreshInterval) >>
    [] OTHER ->
         << NewHeaderProxyAuthorizationAuthnStrategy,
            NewCookieSessionAuthnStrategy(refreshInterval) >>

\* Build, authz.strategies: b.strategies, or the defaults when it is empty.
BuildStrategies_NoDefaults(bb) == bb.strategies

BuildStrategies_Reversed(bb) ==
  IF Len(bb.strategies) = 0
    THEN DefaultStrategies(bb.impl, bb.config.RefreshInterval)
    ELSE [i \in 1..Len(bb.strategies) |->
            bb.strategies[Len(bb.strategies) + 1 - i]]

\* Build that puts the default pair after the configured strategies.
BuildStrategies_DefaultsAdded(bb) ==
  bb.strategies \o DefaultStrategies(bb.impl, bb.config.RefreshInterval)

BuildStrategies(bb) ==
  IF Len(bb.strategies) = 0
    THEN DefaultStrategies(bb.impl, bb.config.RefreshInterval)
    ELSE bb.strategies

\* The last switch with the AuthRequest case binding the ForwardAuth functions.
BindImplementation_AuthRequestAsForwardAuth(a, impl) ==
  IF impl \in {AuthzImplForwardAuth, AuthzImplAuthRequest}
    THEN [a EXCEPT !.fObjectGet = "authzGetObjectImplForwardAuth",
                   !.fHandleUnauthorized = "authzHandleUnauthorizedImplForwardAuth"]
  ELSE IF impl = AuthzImplLegacy
    THEN [a EXCEPT !.fObjectGet = "authzGetObjectImplLegacy",
                   !.fHandleUnauthorized = "authzHandleUnauthorizedImplLegacy"]
  ELSE a

\* Build, the last switch on b.impl: it has no default case.
BindImplementation(a, impl) ==
  CASE impl = AuthzImplLegacy ->
         [a EXCEPT !.fObjectGet = "authzGetObjectImplLegacy",
                   !.fHandleUnauthorized = "authzHandleUnauthorizedImplLegacy"]
    [] impl = AuthzImplForwardAuth ->
         [a EXCEPT !.fObjectGet = "authzGetObjectImplForwardAuth",
                   !.fHandleUnauthorized = "authzHandleUnauthorizedImplForwardAuth"]
    [] impl = AuthzImplAuthRequest ->
         [a EXCEPT !.fObjectGet = "authzGetObjectImplAuthRequest",
                   !.fHandleUnauthorized = "authzHandleUnauthorizedImplAuthRequest"]
    [] OTHER -> a

Build(bb) ==
  BindImplementation(
    [config |-> bb.config,
     strategies |-> BuildStrategies(bb),
     fObjectVerify |-> "authzObjectVerifyStandard",
     fHandleAuthorized |-> "authzHandleAuthorizedStandard",
     fObjectGet |-> NilFunc,
     fHandleUnauthorized |-> NilFunc],
    bb.impl)

-----------------------------------------------------------------------------
(* The arguments the calls are made with *)

SeqsUpTo(S, n) == UNION {[1..k -> S] : k \in 0..n}

Durations == {Second * (-1), Second * 0, Second * MaxInterval}

\* config.AuthenticationBackend.RefreshInterval: the two policy words, the
\* duration of MaxInterval seconds ("2s"), and a string that is no duration.
RefreshPolicies ==
  {ProfileRefreshDisabled, ProfileRefreshAlways,
   <<Digits[MaxInterval + 1], "s">>, <<"x">>}

\* config.Session.Domain.
SessionDomains == {<<"e", ".", "c">>, <<".", "e", ".", "c">>}

StaticConfigs ==
  {[AuthenticationBackend |-> [RefreshInterval |-> p], Session |-> [Domain |-> d]] :
     p \in RefreshPolicies, d \in SessionDomains}

\* A non-nil *url.URL.
PortalURL == [URL |-> <<"h", ":", "/", "/", "p", ".", "e", ".", "c">>]

AuthzDomainLists ==
  {
   << [Name |-> <<".", "e", ".", "c">>, PortalURL |-> PortalURL],
      [Name |-> <<".", "o", ".", "c">>, PortalURL |-> Nil] >>}

AuthzConfigs == [RefreshInterval : Durations, Domains : AuthzDomainLists]

ImplementationNames == {"forward-auth", "auth-request", "legacy", "", "bogus"}

StrategyNames ==
  {AuthnStrategyCookieSession, AuthnStrategyHeaderAuthorization,
   AuthnStrategyHeaderProxyAuthorization,
   AuthnStrategyHeaderAuthRequestProxyAuthorization, AuthnStrategyHeaderLegacy,
   "bogus"}

\* The strategy lists of an endpoint: every list of one name, and every
\* list of up to MaxStrategies names that are CookieSession, HeaderLegacy
\* or not a strategy.
EndpointStrategyLists ==
  {<< [Name |-> n] >> : n \in StrategyNames}
    \cup SeqsUpTo([Name : {AuthnStrategyCookieSession, AuthnStrategyHeaderLegacy,
                           "bogus"}], MaxStrategies)

EndpointConfigs ==
  [Implementation : ImplementationNames, AuthnStrategies : EndpointStrategyLists]

\* The strategies WithStrategies is called with.
Strategies ==
  {NewCookieSessionAuthnStrategy(Second * MaxInterval),
   NewHeaderAuthorizationAuthnStrategy}

-----------------------------------------------------------------------------
(* The state and the calls *)

NoAuthz == Nil

NoRes == Nil

NoSession == Nil

NoHeap == Nil
NoStartup == Nil

Init ==
  /\ b = NewAuthzBuilder
  /\ authz = NoAuthz
  /\ op = [name |-> "NewAuthzBuilder", arg |-> Nil]
  /\ fresh = FALSE
  /\ res = NoRes
  /\ session = NoSession
  /\ heap = NoHeap
  /\ startup = NoStartup

Built == authz # NoAuthz

\* The builder is assembled, built and then discarded: no With* call is
\* made on it once Build() has returned.
Assembling == ~Built

CallWithStrategies(strategies) ==
  /\ Assembling
  /\ b' = WithStrategies(b, strategies)
  /\ op' = [name |-> "WithStrategies", arg |-> strategies]
  /\ fresh' = FALSE
  /\ UNCHANGED <<authz, res, session, heap, startup>>

CallWithStrategyCookie(refreshInterval) ==
  /\ Assembling
  /\ Len(b.strategies) < MaxStrategies
  /\ b' = WithStrategyCookie(b, refreshInterval)
  /\ op' = [name |-> "WithStrategyCookie", arg |-> refreshInterval]
  /\ fresh' = FALSE
  /\ UNCHANGED <<authz, res, session, heap, startup>>

CallWithStrategyAuthorization ==
  /\ Assembling
  /\ Len(b.strategies) < MaxStrategies
  /\ b' = WithStrategyAuthorization(b)
  /\ op' = [name |-> "WithStrategyAuthorization", arg |-> Nil]
  /\ UNCHANGED <<authz, fresh, res, session, heap, startup>>

CallWithStrategyProxyAuthorization ==
  /\ Assembling
  /\ Len(b.strategies) < MaxStrategies
  /\ b' = WithStrategyProxyAuthorization(b)
  /\ op' = [name |-> "WithStrategyProxyAuthorization", arg |-> Nil]
  /\ UNCHANGED <<authz, fresh, res, session, heap, startup>>

CallWithImplementationLegacy ==
  /\ Assembling
  /\ b' = WithImplementationLegacy(b)
  /\ op' = [name |-> "WithImplementationLegacy", arg |-> Nil]
  /\ UNCHANGED <<authz, fresh, res, session, heap, startup>>

CallWithImplementationForwardAuth ==
  /\ Assembling
  /\ b' = WithImplementationForwardAuth(b)
  /\ op' = [name |-> "WithImplementationForwardAuth", arg |-> Nil]
  /\ UNCHANGED <<authz, fresh, res, session, heap, startup>>

CallWithImplementationAuthRequest ==
  /\ Assembling
  /\ b' = WithImplementationAuthRequest(b)
  /\ op' = [name |-> "WithImplementationAuthRequest", arg |-> Nil]
  /\ UNCHANGED <<authz, fresh, res, session, heap, startup>>

\* History for a config call: the RefreshInterval the builder has held since
\* WithEndpointConfig ran, when neither the config nor the strategies were
\* touched between that call and this one.
IntervalBefore ==
  IF fresh THEN [refreshInterval |-> b.config.RefreshInterval] ELSE Nil

CallWithConfig(config) ==
  /\ Assembling
  /\ b' = WithConfig(b, config)
  /\ op' = [name |-> "WithConfig", arg |-> config, before |-> IntervalBefore]
  /\ fresh' = (fresh /\ b'.config = b.config)
  /\ UNCHANGED <<authz, res, session, heap, startup>>

CallWithAuthzConfig(config) ==
  /\ Assembling
  /\ b' = WithAuthzConfig(b, config)
  /\ op' = [name |-> "WithAuthzConfig", arg |-> config, before |-> IntervalBefore]
  /\ fresh' = (fresh /\ b'.config = b.config)
  /\ UNCHANGED <<authz, res, session, heap, startup>>

CallWithEndpointConfig(config) ==
  /\ Assembling
  /\ b' = WithEndpointConfig(b, config)
  /\ op' = [name |-> "WithEndpointConfig", arg |-> config,
            before |-> [impl |-> b.impl]]
  /\ fresh' = TRUE
  /\ UNCHANGED <<authz, res, session, heap, startup>>

\* Build() reads the builder and writes none of its fields.
CallBuild ==
  /\ authz' = Build(b)
  /\ UNCHANGED <<b, op, fresh, res, session, heap, startup>>

Next ==
  \/ \E strategies \in SeqsUpTo(Strategies, MaxStrategies) :
       CallWithStrategies(strategies)
  \/ \E refreshInterval \in Durations : CallWithStrategyCookie(refreshInterval)
  \/ CallWithStrategyAuthorization
  \/ CallWithStrategyProxyAuthorization
  \/ CallWithImplementationLegacy
  \/ CallWithImplementationForwardAuth
  \/ CallWithImplementationAuthRequest
  \/ \E config \in StaticConfigs \cup {Nil} : CallWithConfig(config)
  \/ \E config \in AuthzConfigs : CallWithAuthzConfig(config)
  \/ \E config \in EndpointConfigs : CallWithEndpointConfig(config)
  \/ CallBuild

Spec == Init /\ [][Next]_vars

-----------------------------------------------------------------------------
(* Authorize: one request handled by the built Authz.  A request names the *)
(* host of the original client request, the state of each credential form *)
(* it carries and the answer of the policy collaborator.                   *)

CredentialStates == {"absent", "valid", "invalid"}

\* A host under the domain that has a portal, one under the domain that has
\* none, and one under no configured domain.
Hosts ==
  {<<"a", ".", "e", ".", "c">>, <<"a", ".", "o", ".", "c">>, <<"x", ".", "c">>}

Requests ==
  [host : Hosts, cookie : CredentialStates, authorization : CredentialStates,
   proxyAuthorization : CredentialStates, policy : {"grant", "deny"}]

HasSuffix(str, suffix) ==
  /\ Len(suffix) <= Len(str)
  /\ SubSeq(str, Len(str) - Len(suffix) + 1, Len(str)) = suffix

\* deriveObject: the target object of the request.
DeriveObject(a, request) == [host |-> request.host]

\* verifyObject that looks at the first configured domain only.
MatchingDomains_FirstOnly(object, domains) ==
  {i \in 1..Len(domains) : i = 1 /\ HasSuffix(object.host, domains[i].Name)}

\* verifyObject: the indices of the domains whose Name is a suffix of the host.
MatchingDomains(object, domains) ==
  {i \in 1..Len(domains) : HasSuffix(object.host, domains[i].Name)}

\* The credential a strategy reads: HeaderLegacy takes the header when there
\* is one and the cookie otherwise.
Credential(strategy, request) ==
  CASE strategy.variant = "CookieSession" -> request.cookie
    [] strategy.variant = "HeaderAuthorization" -> request.authorization
    [] strategy.variant = "HeaderProxyAuthorization" -> request.proxyAuthorization
    [] strategy.variant = "HeaderAuthRequestProxyAuthorization" ->
         request.proxyAuthorization
    [] strategy.variant = "HeaderLegacy" ->
         IF request.proxyAuthorization # "absent"
           THEN request.proxyAuthorization
           ELSE request.cookie

\* applies: the credential form of the strategy is present.
Applies(strategy, request) == Credential(strategy, request) # "absent"

\* authenticate that takes a failure of the collaborator for an acceptance.
Authenticate_ErrorAsAuthenticated(strategy, request) ==
  IF Credential(strategy, request) \in {"valid", "error"}
    THEN "Authenticated" ELSE "Invalid"

\* authenticate: a credential that is not accepted is Invalid, and so is one
\* the session/storage collaborator failed on ("error").
Authenticate(strategy, request) ==
  IF Credential(strategy, request) = "valid" THEN "Authenticated" ELSE "Invalid"

\* The strategy chain from position i on: consulted lists the strategies
\* whose applies was evaluated, invoked those whose authenticate was called.
RECURSIVE RunChain(_, _, _, _)
RunChain(strategies, request, i, consulted) ==
  IF i > Len(strategies)
    THEN [consulted |-> consulted, invoked |-> <<>>, outcome |-> "NotApplicable"]
  ELSE IF Applies(strategies[i], request)
    THEN [consulted |-> Append(consulted, strategies[i]),
          invoked |-> << strategies[i] >>,
          outcome |-> Authenticate(strategies[i], request)]
  ELSE RunChain(strategies, request, i + 1, Append(consulted, strategies[i]))

\* renderUnauthorized of the bound adapter, for the matched domain.
RenderUnauthorized(a, domain) ==
  IF a.fHandleUnauthorized = "authzHandleUnauthorizedImplAuthRequest"
    THEN [status |-> 401, location |-> Nil]
  ELSE IF domain.PortalURL # Nil
    THEN [status |-> 302, location |-> domain.PortalURL]
  ELSE [status |-> 401, location |-> Nil]

\* Authorize with the chain run before the host is verified.
Authorize_ChainBeforeVerify(a, request) ==
  LET matched == MatchingDomains(DeriveObject(a, request), a.config.Domains)
      chain == RunChain(a.strategies, request, 1, <<>>)
      allow == /\ matched # {}
               /\ chain.outcome = "Authenticated"
               /\ request.policy = "grant"
  IN [request |-> request, verified |-> matched # {},
      consulted |-> chain.consulted, invoked |-> chain.invoked,
      outcome |-> chain.outcome,
      decision |-> IF allow THEN "Allow" ELSE "Deny",
      response |-> IF allow THEN [status |-> 200, location |-> Nil]
                   ELSE [status |-> 401, location |-> Nil]]

\* Authorize, steps 1 to 5.
Authorize(a, request) ==
  LET object == DeriveObject(a, request)
      matched == MatchingDomains(object, a.config.Domains)
  IN IF matched = {}
       THEN [request |-> request, verified |-> FALSE, consulted |-> <<>>,
             invoked |-> <<>>, outcome |-> "NotApplicable", decision |-> "Deny",
             response |-> [status |-> 401, location |-> Nil]]
     ELSE
       LET domain == a.config.Domains[CHOOSE i \in matched : \A j \in matched : i <= j]
           chain == RunChain(a.strategies, request, 1, <<>>)
           allow == chain.outcome = "Authenticated" /\ request.policy = "grant"
       IN [request |-> request, verified |-> TRUE,
           consulted |-> chain.consulted, invoked |-> chain.invoked,
           outcome |-> chain.outcome,
           decision |-> IF allow THEN "Allow" ELSE "Deny",
           response |-> IF allow THEN [status |-> 200, location |-> Nil]
                        ELSE RenderUnauthorized(a, domain)]

CallAuthorize(request) ==
  /\ Built
  /\ res' = Authorize(authz, request)
  /\ UNCHANGED <<b, authz, op, fresh, session, heap, startup>>

\* The configs of the engines that handle requests: Authorize reads the
\* domains of its config, and no step of it reads the RefreshInterval.
EngineConfigs == {config \in AuthzConfigs : config.RefreshInterval = Second * MaxInterval}

\* The engines of the endpoints: a builder given a config and an endpoint
\* configuration, in this order, and built.
InitAuthorize ==
  \E config \in EngineConfigs, endpoint \in EndpointConfigs :
    /\ b = WithEndpointConfig(WithAuthzConfig(NewAuthzBuilder, config), endpoint)
    /\ authz = Build(b)
    /\ op = [name |-> "WithEndpointConfig", arg |-> endpoint,
             before |-> [impl |-> AuthzImplUnset]]
    /\ fresh = TRUE
    /\ res = NoRes
    /\ session = NoSession
    /\ heap = NoHeap
    /\ startup = NoStartup

NextAuthorize == \E request \in Requests : CallAuthorize(request)

SpecAuthorize == InitAuthorize /\ [][NextAuthorize]_vars

-----------------------------------------------------------------------------
(* Authorize when collaborators fail or the request is cancelled.  A        *)
(* credential in state "error" is one the session/storage collaborator      *)
(* failed on, the policy answer "error" is a failure of the policy          *)
(* collaborator, and cancelled names the collaborator call during which the *)
(* request's cancellation or timeout signal arrives.                        *)

Cancellations == {"never", "session", "policy"}

FaultRequests ==
  [host : Hosts, cookie : CredentialStates \cup {"error"},
   authorization : {"absent"},
   proxyAuthorization : CredentialStates \cup {"error"},
   policy : {"grant", "deny", "error"}]

\* Authorize under a cancellation signal: a call in flight to the session
\* collaborator (a strategy's authenticate) or to the policy collaborator
\* (after an Authenticated outcome) is abandoned and the decision is an error.
AuthorizeContext(a, request, cancelled) ==
  LET r == Authorize(a, request)
      abandoned == \/ cancelled = "session" /\ r.invoked # <<>>
                   \/ cancelled = "policy" /\ r.outcome = "Authenticated"
  IN [request |-> request, cancelled |-> cancelled, verified |-> r.verified,
      consulted |-> r.consulted, invoked |-> r.invoked, outcome |-> r.outcome,
      decision |-> IF abandoned THEN "Error" ELSE r.decision,
      response |-> IF abandoned THEN Nil ELSE r.response]

CallAuthorizeContext(request, cancelled) ==
  /\ Built
  /\ res' = AuthorizeContext(authz, request, cancelled)
  /\ UNCHANGED <<b, authz, op, fresh, session, heap, startup>>

\* The engines with the default chain of each implementation name.
InitFaults ==
  \E config \in EngineConfigs, endpoint \in EndpointConfigs :
    /\ endpoint.AuthnStrategies = <<>>
    /\ b = WithEndpointConfig(WithAuthzConfig(NewAuthzBuilder, config), endpoint)
    /\ authz = Build(b)
    /\ op = [name |-> "WithEndpointConfig", arg |-> endpoint,
             before |-> [impl |-> AuthzImplUnset]]
    /\ fresh = TRUE
    /\ res = NoRes
    /\ session = NoSession
    /\ heap = NoHeap
    /\ startup = NoStartup

NextFaults ==
  \E request \in FaultRequests, cancelled \in Cancellations :
    CallAuthorizeContext(request, cancelled)

SpecFaults == InitFaults /\ [][NextFaults]_vars

-----------------------------------------------------------------------------
(* verifyObject applied to hosts, by engines whose domains come from a     *)
(* static configuration (WithConfig) or from an AuthzConfig.               *)

\* Hosts under a configured domain at one and at two levels, the bare
\* domain, a host that only shares letters with it, hosts with the domain
\* elsewhere than at the end, and a host under no domain.
VerifyHosts ==
  {<<"a", ".", "e", ".", "c">>, <<"b", ".", "a", ".", "e", ".", "c">>,
   <<"e", ".", "c">>, <<"a", "e", ".", "c">>, <<"a", ".", "o", ".", "c">>,
   <<"a", ".", ".", "e", ".", "c">>, <<".", "e", ".", "c", ".", "x">>,
   <<"e", ".", "c", ".", "x", ".", "c">>, <<"x", ".", "c">>}

\* verifyObject: the host of the object is under one configured domain.
VerifyObject(a, object) == MatchingDomains(object, a.config.Domains) # {}

CallVerifyObject(host) ==
  /\ Built
  /\ res' = [host |-> host, ok |-> VerifyObject(authz, [host |-> host])]
  /\ UNCHANGED <<b, authz, op, fresh, session, heap, startup>>

InitVerify ==
  \E config \in StaticConfigs \cup AuthzConfigs :
    \E bb \in {WithImplementationLegacy(NewAuthzBuilder),
                WithImplementationForwardAuth(NewAuthzBuilder),
                WithImplementationAuthRequest(NewAuthzBuilder)} :
      /\ b = IF config \in StaticConfigs THEN WithConfig(bb, config)
                                          ELSE WithAuthzConfig(bb, config)
      /\ authz = Build(b)
      /\ op = [name |-> IF config \in StaticConfigs THEN "WithConfig"
                                                    ELSE "WithAuthzConfig",
               arg |-> config]
      /\ fresh = FALSE
      /\ res = NoRes
      /\ session = NoSession
      /\ heap = NoHeap
      /\ startup = NoStartup

NextVerify == \E host \in VerifyHosts : CallVerifyObject(host)

SpecVerify == InitVerify /\ [][NextVerify]_vars

-----------------------------------------------------------------------------
(* CookieSession authentications of one session over time.  The session    *)
(* collaborator stores when the identity of the session was last           *)
(* refreshed; the clock advances between requests.                         *)

\* The clock runs long enough for two refreshes at the largest interval.
MaxClock == 2 * MaxInterval + 1

\* Whether an authentication re-validates the identity: never when the
\* interval is Disabled, always when it is Always, otherwise when the time
\* since the last refresh has reached the interval.
RefreshRequired(refreshInterval, elapsed) ==
  IF refreshInterval = Second * (-1) THEN FALSE
  ELSE IF refreshInterval = Second * 0 THEN TRUE
  ELSE elapsed >= refreshInterval

\* The CookieSession strategy of an engine.
CookieStrategy(a) ==
  a.strategies[CHOOSE i \in 1..Len(a.strategies) :
                 a.strategies[i].variant = "CookieSession"]

\* authenticate of the CookieSession strategy for the session: it loads the
\* session, calls RefreshIdentity when a refresh is required, and the
\* collaborator then records the time of the refresh.
CallAuthenticateCookie ==
  /\ Built
  /\ LET refresh == RefreshRequired(CookieStrategy(authz).refreshInterval,
                                    session.now - session.lastRefreshedAt)
     IN /\ res' = [now |-> session.now,
                   lastRefreshedAt |-> session.lastRefreshedAt,
                   RefreshIdentity |-> refresh]
        /\ session' = IF refresh
                        THEN [session EXCEPT !.lastRefreshedAt = session.now]
                        ELSE session
  /\ UNCHANGED <<b, authz, op, fresh, heap, startup>>

Tick ==
  /\ session.now < MaxClock
  /\ session' = [session EXCEPT !.now = session.now + Second]
  /\ UNCHANGED <<b, authz, op, fresh, res, heap, startup>>

\* Engines with a CookieSession strategy: appended with an interval, or the
\* last of the default pair, bound to the interval of the config.
InitRefresh ==
  /\ \/ \E refreshInterval \in Durations :
          /\ b = WithStrategyCookie(NewAuthzBuilder, refreshInterval)
          /\ op = [name |-> "WithStrategyCookie", arg |-> refreshInterval]
     \/ \E config \in AuthzConfigs :
          /\ b = WithAuthzConfig(NewAuthzBuilder, config)
          /\ op = [name |-> "WithAuthzConfig", arg |-> config]
  /\ authz = Build(b)
  /\ fresh = FALSE
  /\ res = NoRes
  /\ session = [now |-> 0, lastRefreshedAt |-> 0]
  /\ heap = NoHeap
  /\ startup = NoStartup

NextRefresh == Tick \/ CallAuthenticateCookie

SpecRefresh == InitRefresh /\ [][NextRefresh]_vars

-----------------------------------------------------------------------------
(* The builder and the Authz objects it returns, with the memory they       *)
(* share.  A Go slice is a header (array, len, cap) over a backing array:   *)
(* Build() copies the header of b.strategies into the Authz, so both see    *)
(* one array, and the builder stays usable after Build().  The config is a  *)
(* struct copied by value whose Domains no builder call writes into.        *)

SliceNil == [array |-> 0, len |-> 0, cap |-> 0]

\* The elements a slice shows: the first len cells of its array.
SliceView(arrays, slice) ==
  IF slice.len = 0 THEN <<>> ELSE SubSeq(arrays[slice.array], 1, slice.len)

\* A slice over a new array that holds elems (a nil slice for none): the
\* arguments of a variadic call, or a composite literal.
SliceLiteral(arrays, elems) ==
  IF elems = <<>>
    THEN [arrays |-> arrays, slice |-> SliceNil]
    ELSE [arrays |-> Append(arrays, elems),
          slice |-> [array |-> Len(arrays) + 1, len |-> Len(elems),
                     cap |-> Len(elems)]]

\* The spare cells a new array may have after the appended element: the
\* language leaves the capacity append chooses to the runtime.
Rooms == {0, 1}

\* append(slice, x): in place when the array has room, otherwise into a new
\* array, with room spare cells, that the old cells are copied to.
SliceAppend(arrays, slice, x, room) ==
  IF slice.len < slice.cap
    THEN [arrays |-> [arrays EXCEPT ![slice.array][slice.len + 1] = x],
          slice |-> [slice EXCEPT !.len = slice.len + 1]]
    ELSE LET newcap == slice.len + 1 + room
             old == SliceView(arrays, slice)
         IN [arrays |-> Append(arrays,
                          [i \in 1..newcap |->
                             IF i <= slice.len THEN old[i]
                             ELSE IF i = slice.len + 1 THEN x ELSE Nil]),
             slice |-> [array |-> Len(arrays) + 1, len |-> slice.len + 1,
                        cap |-> newcap]]

RECURSIVE SliceAppendAll(_, _, _, _)
SliceAppendAll(arrays, slice, elems, room) ==
  IF elems = <<>> THEN [arrays |-> arrays, slice |-> slice]
  ELSE LET r == SliceAppend(arrays, slice, Head(elems), room)
       IN SliceAppendAll(r.arrays, r.slice, Tail(elems), room)

\* An assignment that refills the array of the old slice with the new elements.
SliceAssign_ReuseArray(arrays, slice, elems) ==
  SliceAppendAll(arrays, [slice EXCEPT !.len = 0], elems, 0)

\* b.strategies = strategies: the field takes the slice of the arguments.
SliceAssign(arrays, slice, elems) == SliceLiteral(arrays, elems)

\* What an Authz object shows: its fields, with the elements of its slice.
AuthzView(arrays, a) == [a EXCEPT !.strategies = SliceView(arrays, a.strategies)]

\* The memory without the arrays no slice refers to any more, the others
\* keeping their order: what the program cannot reach it cannot observe.
Collect(h) ==
  LET slices == {h.strategies} \cup {h.built[i].strategies : i \in 1..Len(h.built)}
      live == {slice.array : slice \in slices} \ {0}
      rank(a) == Cardinality({x \in live : x <= a})
      move(slice) == IF slice.array = 0 THEN slice
                     ELSE [slice EXCEPT !.array = rank(slice.array)]
  IN [arrays |-> [k \in 1..Cardinality(live) |->
                    h.arrays[CHOOSE a \in live : rank(a) = k]],
      strategies |-> move(h.strategies),
      built |-> [i \in 1..Len(h.built) |->
                   [h.built[i] EXCEPT !.strategies = move(h.built[i].strategies)]]]

\* The memory once b.strategies is the slice r.slice over the arrays r.arrays.
HeapStrategies(r) ==
  Collect([heap EXCEPT !.arrays = r.arrays, !.strategies = r.slice])

\* A call on the builder, before or after Build().
HeapCall(bb, r) ==
  /\ r.slice.len <= MaxStrategies
  /\ b' = bb
  /\ heap' = HeapStrategies(r)
  /\ UNCHANGED <<authz, op, fresh, res, session, startup>>

HeapUnchanged == [arrays |-> heap.arrays, slice |-> heap.strategies]

HeapWithStrategies(strategies) ==
  HeapCall(WithStrategies(b, strategies),
           SliceAssign(heap.arrays, heap.strategies, strategies))

HeapWithStrategyCookie(refreshInterval, room) ==
  HeapCall(WithStrategyCookie(b, refreshInterval),
           SliceAppend(heap.arrays, heap.strategies,
                       NewCookieSessionAuthnStrategy(refreshInterval), room))

HeapWithStrategyAuthorization(room) ==
  HeapCall(WithStrategyAuthorization(b),
           SliceAppend(heap.arrays, heap.strategies,
                       NewHeaderAuthorizationAuthnStrategy, room))

HeapWithStrategyProxyAuthorization(room) ==
  HeapCall(WithStrategyProxyAuthorization(b),
           SliceAppend(heap.arrays, heap.strategies,
                       NewHeaderProxyAuthorizationAuthnStrategy, room))

\* The three WithImplementation* calls assign b.impl and nothing else;
\* AuthRequest stands for them here.
HeapWithImplementationAuthRequest ==
  HeapCall(WithImplementationAuthRequest(b), HeapUnchanged)

HeapWithConfig(config) ==
  HeapCall(WithConfig(b, config), HeapUnchanged)

HeapWithAuthzConfig(config) ==
  HeapCall(WithAuthzConfig(b, config), HeapUnchanged)

\* WithEndpointConfig: b.WithStrategies() leaves a nil slice, and each
\* recognized name appends to it.
HeapWithEndpointConfig(config, room) ==
  HeapCall(WithEndpointConfig(b, config),
           LET cleared == SliceAssign(heap.arrays, heap.strategies, <<>>)
           IN SliceAppendAll(cleared.arrays, cleared.slice,
                             WithEndpointConfig(b, config).strategies, room))

\* Build(): the Authz object takes a copy of the header of b.strategies, or
\* a literal of the default pair when that slice is empty; the builder's own
\* slice is not assigned.  track says whether this is the object followed.
HeapBuild(track) ==
  /\ track => heap.built = <<>>
  /\ LET r == IF heap.strategies.len = 0
                THEN SliceLiteral(heap.arrays,
                                  DefaultStrategies(b.impl, b.config.RefreshInterval))
                ELSE HeapUnchanged
         object == [Build(b) EXCEPT !.strategies = r.slice]
     IN /\ heap' = Collect([heap EXCEPT !.arrays = r.arrays,
                                        !.built = IF track THEN << object >>
                                                           ELSE heap.built])
        /\ authz' = IF track THEN AuthzView(r.arrays, object) ELSE authz
  /\ UNCHANGED <<b, op, fresh, res, session, startup>>

\* The requests the returned objects handle while the builder is used on.
HeapRequests ==
  {request \in Requests :
     /\ request.host = <<"a", ".", "e", ".", "c">>
     /\ request.cookie = "valid"
     /\ request.authorization = "absent"
     /\ request.proxyAuthorization = "absent"
     /\ request.policy = "grant"}

\* Authorize on one of the returned objects: it reads the object.
HeapAuthorize(i, request) ==
  /\ i \in 1..Len(heap.built)
  /\ res' = Authorize(AuthzView(heap.arrays, heap.built[i]), request)
  /\ UNCHANGED <<b, authz, op, fresh, session, heap, startup>>

InitHeap ==
  /\ b = NewAuthzBuilder
  /\ authz = NoAuthz
  /\ op = [name |-> "NewAuthzBuilder", arg |-> Nil]
  /\ fresh = FALSE
  /\ res = NoRes
  /\ session = NoSession
  /\ heap = [arrays |-> <<>>, strategies |-> SliceNil, built |-> <<>>]
  /\ startup = NoStartup

HeapStrategyLists == SeqsUpTo({NewHeaderAuthorizationAuthnStrategy}, MaxStrategies)

HeapEndpointConfigs ==
  {config \in EndpointConfigs :
     /\ config.Implementation = "auth-request"
     /\ \A i \in 1..Len(config.AuthnStrategies) :
          config.AuthnStrategies[i].Name = AuthnStrategyHeaderProxyAuthorization}

NextHeap ==
  \/ \E strategies \in HeapStrategyLists : HeapWithStrategies(strategies)
  \/ \E room \in Rooms : HeapWithStrategyCookie(Second * (-1), room)
  \/ \E room \in Rooms : HeapWithStrategyAuthorization(room)
  \/ \E room \in Rooms : HeapWithStrategyProxyAuthorization(room)
  \/ HeapWithImplementationAuthRequest
  \/ HeapWithConfig(Nil)
  \/ \E config \in EngineConfigs : HeapWithAuthzConfig(config)
  \/ \E config \in HeapEndpointConfigs, room \in Rooms :
       HeapWithEndpointConfig(config, room)
  \/ \E track \in BOOLEAN : HeapBuild(track)
  \/ \E request \in HeapRequests : HeapAuthorize(1, request)

SpecHeap == InitHeap /\ [][NextHeap]_vars


(***************************************************************************)
(* SQLProvider.StartupCheck (internal/storage/sql_provider.go).            *)
(*                                                                         *)
(* Errors the function receives are strings; "nil" is the nil error.  An   *)
(* error it returns is the record [msg, err]: fmt.Errorf("msg: %w", e)     *)
(* wraps e under msg, an error returned as it is has the empty msg.  Ping,  SchemaEncryptionCheckKey and           *)
(* SchemaMigrate are calls into the database: each returns one of the      *)
(* outcomes the function distinguishes, chosen by the environment.         *)
(***************************************************************************)
PingAttempts == 19

ErrNil == "nil"
ErrSchemaEncryptionVersionUnsupported == "ErrSchemaEncryptionVersionUnsupported"
ErrSchemaAlreadyUpToDate == "ErrSchemaAlreadyUpToDate"

OpenErrors == {ErrNil, "unable to open database file"}
PingResults == {ErrNil, "connection refused", "i/o timeout"}
EncryptionCheckResults ==
  {ErrNil, ErrSchemaEncryptionVersionUnsupported, "ErrSchemaEncryptionInvalidKey"}
MigrateResults == {ErrNil, ErrSchemaAlreadyUpToDate, "ErrMigrateCurrentVersionSameAsTarget"}

NotCalled == "not called"
NotReturned == [returned |-> FALSE]

Errorf(msg, err) == [msg |-> msg, err |-> err]
Unwrapped(err) == [msg |-> "", err |-> err]
Return(value) == [returned |-> TRUE, value |-> value]

\* A loop that goes round once more.
PingLoop_Inclusive(i) == i <= PingAttempts

\* the loop condition i < 19
PingLoop(i) == i < PingAttempts

\* err != nil && !errors.Is(err, ErrSchemaEncryptionVersionUnsupported)
EncryptionCheckFails(err) ==
  err # ErrNil /\ err # ErrSchemaEncryptionVersionUnsupported

\* the switch on the error of SchemaMigrate
MigrateReturn(err) ==
  CASE err = ErrSchemaAlreadyUpToDate -> Unwrapped(ErrNil)
    [] err = ErrNil -> Unwrapped(ErrNil)
    [] OTHER -> Errorf("error during schema migrate", err)

StartupUnchanged == UNCHANGED <<b, authz, op, fresh, res, session, heap>>

\* if p.errOpen != nil { return ... }
StartupCheckOpen ==
  /\ startup.pc = "open"
  /\ IF startup.errOpen # ErrNil
       THEN startup' = [startup EXCEPT
              !.pc = "done",
              !.ret = Return(Errorf("error opening database", startup.errOpen))]
       ELSE startup' = [startup EXCEPT !.pc = "for", !.i = 0]
  /\ StartupUnchanged

\* for ...; i < 19; ...: the loop is entered again or left
StartupFor ==
  /\ startup.pc = "for"
  /\ startup' = [startup EXCEPT
       !.pc = IF PingLoop(startup.i) THEN "ping" ELSE "pinged"]
  /\ StartupUnchanged

\* if err = p.db.Ping(); err == nil { break }
StartupPing(result) ==
  /\ startup.pc = "ping"
  /\ startup' = [startup EXCEPT
       !.err = result,
       !.pings = @ + 1,
       !.pingOK = (result = ErrNil),
       !.pc = IF result = ErrNil THEN "pinged" ELSE "sleep"]
  /\ StartupUnchanged

\* time.Sleep(time.Millisecond * 500); i++
StartupSleep ==
  /\ startup.pc = "sleep"
  /\ startup' = [startup EXCEPT
       !.sleeps = @ + 1,
       !.i = @ + 1,
       !.pc = "for"]
  /\ StartupUnchanged

\* if err != nil { return ... }
StartupCheckPing ==
  /\ startup.pc = "pinged"
  /\ IF startup.err # ErrNil
       THEN startup' = [startup EXCEPT
              !.pc = "done",
              !.ret = Return(Errorf("error pinging database", startup.err))]
       ELSE startup' = [startup EXCEPT !.pc = "key"]
  /\ StartupUnchanged

\* if err = p.SchemaEncryptionCheckKey(ctx, false); ... { return err }
StartupEncryptionCheck(result) ==
  /\ startup.pc = "key"
  /\ IF EncryptionCheckFails(result)
       THEN startup' = [startup EXCEPT
              !.err = result,
              !.encryptionCheck = result,
              !.pc = "done",
              !.ret = Return(Unwrapped(result))]
       ELSE startup' = [startup EXCEPT
              !.err = result,
              !.encryptionCheck = result,
              !.pc = "migrate"]
  /\ StartupUnchanged

\* err = p.SchemaMigrate(ctx, true, SchemaLatest); switch err { ... }
StartupMigrate(result) ==
  /\ startup.pc = "migrate"
  /\ startup' = [startup EXCEPT
       !.err = result,
       !.migrate = result,
       !.pc = "done",
       !.ret = Return(MigrateReturn(result))]
  /\ StartupUnchanged

\* a provider as NewSQLProvider leaves it (errOpen set or not), and
\* StartupCheck called on it
InitStartup ==
  /\ b = NewAuthzBuilder
  /\ authz = NoAuthz
  /\ op = [name |-> "NewAuthzBuilder", arg |-> Nil]
  /\ fresh = FALSE
  /\ res = NoRes
  /\ session = NoSession
  /\ heap = NoHeap
  /\ \E errOpen \in OpenErrors :
       startup = [errOpen |-> errOpen, pc |-> "open", i |-> 0, err |-> ErrNil,
                  ret |-> NotReturned, pings |-> 0, sleeps |-> 0,
                  pingOK |-> FALSE, encryptionCheck |-> NotCalled,
                  migrate |-> NotCalled]

NextStartup ==
  \/ StartupCheckOpen
  \/ StartupFor
  \/ \E result \in PingResults : StartupPing(result)
  \/ StartupSleep
  \/ StartupCheckPing
  \/ \E result \in EncryptionCheckResults : StartupEncryptionCheck(result)
  \/ \E result \in MigrateResults : StartupMigrate(result)

\* StartupCheck runs on one goroutine and every call it makes returns: a
\* step that can be taken is taken
SpecStartup == InitStartup /\ [][NextStartup]_vars /\ WF_vars(NextStartup)

-----------------------------------------------------------------------------
(* Properties of the builder *)

\* The variant tags of a strategy list, in order.
Variants(list) == [i \in 1..Len(list) |-> list[i].variant]

IsCookieSession(strategy) == strategy.variant = "CookieSession"

\* C1: Build() on a builder with no strategies installs the default chain of
\* the selected implementation, CookieSession last: Legacy gives
\* [HeaderLegacy, CookieSession], AuthRequest gives
\* [HeaderAuthRequestProxyAuthorization, CookieSession], ForwardAuth gives
\* [HeaderProxyAuthorization, CookieSession].
C1_DefaultChain ==
  (Built /\ b.strategies = <<>>) =>
    /\ b.impl = AuthzImplLegacy =>
         Variants(authz.strategies) = <<"HeaderLegacy", "CookieSession">>
    /\ b.impl = AuthzImplAuthRequest =>
         Variants(authz.strategies) =
           <<"HeaderAuthRequestProxyAuthorization", "CookieSession">>
    /\ b.impl = AuthzImplForwardAuth =>
         Variants(authz.strategies) =
           <<"HeaderProxyAuthorization", "CookieSession">>

C1_Witness ==
  /\ Built
  /\ b.strategies = <<>>
  /\ b.impl = AuthzImplAuthRequest
  /\ Variants(authz.strategies) =
       <<"HeaderAuthRequestProxyAuthorization", "CookieSession">>

\* An endpoint whose implementation name is none of the three and whose
\* strategy list is empty was configured, and Build() followed it.
UnrecognizedEndpointBuilt ==
  /\ Built
  /\ op.name = "WithEndpointConfig"
  /\ op.arg.Implementation \notin {"legacy", "forward-auth", "auth-request"}
  /\ op.arg.AuthnStrategies = <<>>

\* C2 as stated: an endpoint with an unrecognized implementation name and no
\* strategies builds the chain [HeaderProxyAuthorization, CookieSession].
C2_UnrecognizedAsForwardAuth ==
  UnrecognizedEndpointBuilt =>
    Variants(authz.strategies) = <<"HeaderProxyAuthorization", "CookieSession">>

\* C2 as amended: an endpoint with an unrecognized implementation name and no
\* strategies is treated as Legacy: WithEndpointConfig followed by Build()
\* gives the chain [HeaderLegacy, CookieSession].
C2_UnrecognizedAsLegacy ==
  UnrecognizedEndpointBuilt =>
    Variants(authz.strategies) = <<"HeaderLegacy", "CookieSession">>

C2_Witness ==
  /\ UnrecognizedEndpointBuilt
  /\ op.arg.Implementation = "bogus"
  /\ Variants(authz.strategies) = <<"HeaderLegacy", "CookieSession">>

\* C3: WithEndpointConfig selects ForwardAuth for the name "forward-auth",
\* AuthRequest for "auth-request" and Legacy for every other name, whatever
\* implementation the builder held before.
C3_EndpointImplementation ==
  op.name = "WithEndpointConfig" =>
    b.impl = CASE op.arg.Implementation = "forward-auth" -> AuthzImplForwardAuth
               [] op.arg.Implementation = "auth-request" -> AuthzImplAuthRequest
               [] OTHER -> AuthzImplLegacy

C3_Witness ==
  /\ op.name = "WithEndpointConfig"
  /\ op.arg.Implementation = ""
  /\ op.before.impl = AuthzImplAuthRequest
  /\ b.impl = AuthzImplLegacy

\* The functions of one implementation variant.
AdapterOf(a) ==
  CASE /\ a.fObjectGet = "authzGetObjectImplLegacy"
       /\ a.fHandleUnauthorized = "authzHandleUnauthorizedImplLegacy" ->
         AuthzImplLegacy
    [] /\ a.fObjectGet = "authzGetObjectImplForwardAuth"
       /\ a.fHandleUnauthorized = "authzHandleUnauthorizedImplForwardAuth" ->
         AuthzImplForwardAuth
    [] /\ a.fObjectGet = "authzGetObjectImplAuthRequest"
       /\ a.fHandleUnauthorized = "authzHandleUnauthorizedImplAuthRequest" ->
         AuthzImplAuthRequest
    [] OTHER -> "none"

C5_ChainNonEmpty == Built => Len(authz.strategies) > 0

C5_Witness ==
  /\ Built
  /\ b.strategies = <<>>
  /\ op.name = "WithEndpointConfig"
  /\ Len(op.arg.AuthnStrategies) = MaxStrategies
  /\ Len(authz.strategies) = 2

RecognizedStrategyNames ==
  {"CookieSession", "HeaderAuthorization", "HeaderProxyAuthorization",
   "HeaderAuthRequestProxyAuthorization", "HeaderLegacy"}

\* The names of the entries of an endpoint's strategy list that are
\* strategies, in list order.
RecognizedNames(list) ==
  LET kept == SelectSeq(list, LAMBDA e : e.Name \in RecognizedStrategyNames)
  IN [i \in 1..Len(kept) |-> kept[i].Name]

\* C6: after WithEndpointConfig the builder's strategies are exactly one
\* strategy per recognized entry of the endpoint's list, in list order with
\* duplicates kept; nothing accumulated before remains and unrecognized
\* names add nothing.
C6_EndpointStrategies ==
  op.name = "WithEndpointConfig" =>
    Variants(b.strategies) = RecognizedNames(op.arg.AuthnStrategies)

C6_Witness ==
  /\ op.name = "WithEndpointConfig"
  /\ Variants(b.strategies) = <<"HeaderLegacy">>
  /\ op.arg.AuthnStrategies = << [Name |-> "bogus"], [Name |-> "HeaderLegacy"] >>
  /\ ~Built

\* C7: when no call changed the config or added strategies of its own after
\* WithEndpointConfig, every CookieSession strategy of the built Authz,
\* created by WithEndpointConfig or installed as a default, is bound to the
\* built config's RefreshInterval.
C7_CookieRefreshInterval ==
  (Built /\ fresh) =>
    \A i \in 1..Len(authz.strategies) :
      IsCookieSession(authz.strategies[i]) =>
        authz.strategies[i].refreshInterval = authz.config.RefreshInterval

C7_Witness ==
  /\ Built
  /\ fresh
  /\ authz.config.RefreshInterval = Second * MaxInterval
  /\ b.strategies # <<>>
  /\ \E i \in 1..Len(authz.strategies) :
       /\ IsCookieSession(authz.strategies[i])
       /\ authz.strategies[i].refreshInterval = Second * MaxInterval

\* C8: WithConfig with a configuration sets RefreshInterval to -1 second for
\* the policy "disabled", to 0 for "always" and to the parsed duration for
\* any other string; the result is -1 second, 0 or a positive duration, also
\* for a string that is no duration.
C8_RefreshIntervalPolicy ==
  (op.name = "WithConfig" /\ op.arg # Nil) =>
    LET policy == op.arg.AuthenticationBackend.RefreshInterval
        interval == b.config.RefreshInterval
    IN /\ policy = <<"d", "i", "s", "a", "b", "l", "e", "d">> =>
            interval = -1 * Second
       /\ policy = <<"a", "l", "w", "a", "y", "s">> => interval = 0
       /\ policy \notin {<<"d", "i", "s", "a", "b", "l", "e", "d">>,
                         <<"a", "l", "w", "a", "y", "s">>} =>
            interval = ParseDurationString(policy).duration
       /\ policy = <<Digits[MaxInterval + 1], "s">> =>
            interval = MaxInterval * Second
       /\ policy = <<"x">> => interval = 0
       /\ interval = -1 * Second \/ interval = 0 \/ interval > 0

C8_Witness ==
  /\ op.name = "WithConfig"
  /\ op.arg # Nil
  /\ op.arg.AuthenticationBackend.RefreshInterval = <<"x">>
  /\ ParseDurationString(<<"x">>).err
  /\ b.config.RefreshInterval = 0

\* C9: after WithConfig with a configuration the builder has exactly one
\* domain: its Name is "." followed by the session domain, its PortalURL is
\* unset, and no domain set earlier remains.
C9_OneDomain ==
  (op.name = "WithConfig" /\ op.arg # Nil) =>
    /\ Len(b.config.Domains) = 1
    /\ Head(b.config.Domains[1].Name) = "."
    /\ Tail(b.config.Domains[1].Name) = op.arg.Session.Domain
    /\ b.config.Domains[1].PortalURL = Nil

C9_Witness ==
  /\ op.name = "WithConfig"
  /\ op.arg # Nil
  /\ op.arg.Session.Domain = <<".", "e", ".", "c">>
  /\ b.config.Domains = << [Name |-> <<".", ".", "e", ".", "c">>, PortalURL |-> Nil] >>

-----------------------------------------------------------------------------
(* Properties of Authorize *)

\* The first strategy of a list that applies to a request, as a list of at
\* most one strategy.
FirstApplying(list, request) ==
  LET applying == {i \in 1..Len(list) : Applies(list[i], request)}
  IN IF applying = {} THEN <<>>
     ELSE << list[CHOOSE i \in applying : \A j \in applying : i <= j] >>

\* The order the endpoint was configured with: the builder's strategies, or
\* the defaults Build() installed when there were none.
ConfiguredOrder == IF b.strategies # <<>> THEN b.strategies ELSE authz.strategies

\* C10: a request that reaches the chain has the authenticate of at most one
\* strategy invoked, that of the first strategy in configured order that
\* applies, which decides the outcome (Authenticated or Invalid); no later
\* strategy is consulted; when none applies the outcome is NotApplicable and
\* the request is denied.
C10_ChainOrder ==
  (res # NoRes /\ res.verified) =>
    LET first == FirstApplying(ConfiguredOrder, res.request)
    IN /\ Len(res.invoked) <= 1
       /\ res.invoked = first
       /\ first = <<>> =>
            /\ res.outcome = "NotApplicable"
            /\ res.decision = "Deny"
            /\ res.consulted = ConfiguredOrder
       /\ first # <<>> =>
            /\ res.outcome \in {"Authenticated", "Invalid"}
            /\ res.outcome = "Authenticated" <=>
                 Credential(first[1], res.request) = "valid"
            /\ res.consulted[Len(res.consulted)] = first[1]
            /\ \A i \in 1..(Len(res.consulted) - 1) :
                 ~Applies(res.consulted[i], res.request)
            /\ Len(res.consulted) <= Len(ConfiguredOrder)
            /\ \A i \in 1..Len(res.consulted) :
                 res.consulted[i] = ConfiguredOrder[i]

\* Two strategies apply, the first rejects, the second would accept: the
\* second is not consulted.
C10_Witness ==
  /\ res # NoRes
  /\ res.verified
  /\ Variants(authz.strategies) = <<"HeaderLegacy", "CookieSession">>
  /\ b.strategies # <<>>
  /\ res.request.proxyAuthorization = "invalid"
  /\ res.request.cookie = "valid"
  /\ Variants(res.invoked) = <<"HeaderLegacy">>
  /\ Variants(res.consulted) = <<"HeaderLegacy">>
  /\ res.outcome = "Invalid"

\* The host of a request is under none of the domains of the engine.
ForeignHost(request) ==
  \A i \in 1..Len(authz.config.Domains) :
    ~HasSuffix(request.host, authz.config.Domains[i].Name)

\* C11: a request whose host fails domain verification is denied at step 2:
\* no strategy's applies or authenticate is invoked and no redirect to a
\* portal is issued, whatever credentials the request carries.
C11_ForeignHostDenied ==
  (res # NoRes /\ ForeignHost(res.request)) =>
    /\ ~res.verified
    /\ res.decision = "Deny"
    /\ res.consulted = <<>>
    /\ res.invoked = <<>>
    /\ res.response.status # 302
    /\ res.response.location = Nil

\* A foreign host with a valid session cookie, on an engine whose chain has
\* a CookieSession strategy and whose policy would grant.
C11_Witness ==
  /\ res # NoRes
  /\ ForeignHost(res.request)
  /\ res.request.cookie = "valid"
  /\ res.request.policy = "grant"
  /\ \E i \in 1..Len(authz.strategies) : IsCookieSession(authz.strategies[i])
  /\ res.decision = "Deny"
  /\ res.consulted = <<>>

\* C12: Authorize allows a request only when its host passed domain
\* verification, a strategy of the chain applied and accepted its credential,
\* the policy collaborator granted and no call was cancelled; a request
\* with no credential, a rejected credential, a failing session or policy
\* collaborator, or a cancelled call, is denied or ends in an error.
C12_AllowOnlyWhenGranted ==
  res # NoRes =>
    /\ res.decision \in {"Allow", "Deny", "Error"}
    /\ res.decision = "Allow" =>
         LET first == FirstApplying(authz.strategies, res.request)
         IN /\ ~ForeignHost(res.request)
            /\ first # <<>>
            /\ Credential(first[1], res.request) = "valid"
            /\ res.request.policy = "grant"
            /\ res.cancelled = "never"
            /\ res.response.status = 200
    /\ (res.cancelled # "never" /\ res.invoked # <<>>) => res.decision # "Allow"

\* The session collaborator fails on the header of a request whose cookie is
\* valid and whose policy answer is a grant: the request is denied.
C12_Witness ==
  /\ res # NoRes
  /\ ~ForeignHost(res.request)
  /\ res.request.proxyAuthorization = "error"
  /\ res.request.cookie = "valid"
  /\ res.request.policy = "grant"
  /\ res.cancelled = "never"
  /\ res.outcome = "Invalid"
  /\ res.decision = "Deny"

\* The domains of the engine the host of a request is under.
DomainsOf(request) ==
  {i \in 1..Len(authz.config.Domains) :
     HasSuffix(request.host, authz.config.Domains[i].Name)}

\* The matched domain of a request whose host is not foreign: the first one.
MatchedDomain(request) ==
  authz.config.Domains[CHOOSE i \in DomainsOf(request) :
                         \A j \in DomainsOf(request) : i <= j]

\* C13: an engine built with the AuthRequest implementation answers every
\* request it does not allow with status 401 and no Location, whether or not
\* the matched domain has a PortalURL; an engine built with the Legacy or
\* the ForwardAuth implementation answers a request it does not allow with
\* 302 and the PortalURL as a non-empty Location whenever the matched domain
\* has a PortalURL.
C13_UnauthorizedRendering ==
  (res # NoRes /\ res.decision = "Deny") =>
    /\ b.impl = AuthzImplAuthRequest =>
         /\ res.response.status = 401
         /\ res.response.location = Nil
    /\ ( /\ b.impl \in {AuthzImplLegacy, AuthzImplForwardAuth}
         /\ ~ForeignHost(res.request)
         /\ MatchedDomain(res.request).PortalURL # Nil ) =>
         /\ res.response.status = 302
         /\ res.response.location = MatchedDomain(res.request).PortalURL
         /\ res.response.location.URL # <<>>

\* An AuthRequest engine denies a request with no credential whose host is
\* under the domain that has a portal: 401, not a redirect.
C13_Witness ==
  /\ res # NoRes
  /\ b.impl = AuthzImplAuthRequest
  /\ ~ForeignHost(res.request)
  /\ MatchedDomain(res.request).PortalURL # Nil
  /\ res.outcome = "NotApplicable"
  /\ res.decision = "Deny"
  /\ res.response.status = 401

\* str ends with suffix: it is some prefix followed by suffix.
EndsWith(str, suffix) ==
  \E k \in 0..Len(str) :
    /\ Len(str) - k = Len(suffix)
    /\ \A i \in 1..Len(suffix) : str[k + i] = suffix[i]

\* C14: verifyObject succeeds for every host that ends with the leading-dot
\* Name of a configured domain, a subdomain of it at any depth, and fails
\* for every host that ends with the Name of no configured domain.
C14_VerifyObject ==
  (res # NoRes) =>
    (res.ok <=> \E i \in 1..Len(authz.config.Domains) :
                  EndsWith(res.host, authz.config.Domains[i].Name))

\* A host two levels under the domain a static configuration names is
\* verified by the engine built from it.
C14_Witness ==
  /\ res # NoRes
  /\ op.name = "WithConfig"
  /\ op.arg.Session.Domain = <<"e", ".", "c">>
  /\ res.host = <<"b", ".", "a", ".", "e", ".", "c">>
  /\ res.ok

\* The refresh interval the engine was configured with: the argument of
\* WithStrategyCookie, or the RefreshInterval of the config for a default chain.
ConfiguredInterval ==
  IF op.name = "WithStrategyCookie" THEN op.arg ELSE op.arg.RefreshInterval

\* C15: over the CookieSession authentications of one session, RefreshIdentity
\* is never invoked when the interval is Disabled, is invoked by every
\* authentication when it is Always, and with a positive interval is invoked
\* by an authentication exactly when the time since the last refresh is at
\* least the interval; the time of the last refresh moves only on a refresh.
C15_RefreshIdentity ==
  [][(session'.now = session.now) =>
       LET elapsed == session.now - session.lastRefreshedAt
           invoked == res'.RefreshIdentity
       IN /\ ConfiguredInterval = Second * (-1) => ~invoked
          /\ ConfiguredInterval = Second * 0 => invoked
          /\ ConfiguredInterval > 0 => (invoked <=> elapsed >= ConfiguredInterval)
          /\ session'.lastRefreshedAt =
               IF invoked THEN session.now ELSE session.lastRefreshedAt]_vars

\* A session refreshed once after the start is refreshed again, a positive
\* interval later.
C15_Witness ==
  /\ res # NoRes
  /\ ConfiguredInterval > 0
  /\ res.lastRefreshedAt > 0
  /\ res.now - res.lastRefreshedAt >= ConfiguredInterval
  /\ res.RefreshIdentity
  /\ session.lastRefreshedAt = res.now

\* C16: once Build() has returned an Authz, what that object shows (its
\* config, the elements of its strategy slice in order, its bound
\* functions) is the same after every later step: a With* call on the same
\* builder, WithEndpointConfig, another Build(), or an Authorize on any
\* returned object.
C16_BuiltImmutable ==
  [][\A i \in 1..Len(heap.built) :
       AuthzView(heap'.arrays, heap'.built[i]) =
         AuthzView(heap.arrays, heap.built[i])]_vars

\* The first object and the builder share an array the builder has since
\* appended into; a second object was built and a request was handled.
C16_Witness ==
  /\ heap # NoHeap
  /\ Len(heap.built) = 1
  /\ heap.built[1].strategies.len > 0
  /\ heap.built[1].strategies.array = heap.strategies.array
  /\ heap.strategies.len > heap.built[1].strategies.len
  /\ res # NoRes

\* The default pair of an implementation: its header strategy, then a
\* CookieSession bound to the interval of the config.
DefaultPair(impl, refreshInterval) ==
  << [variant |-> CASE impl = AuthzImplLegacy -> "HeaderLegacy"
                    [] impl = AuthzImplAuthRequest ->
                         "HeaderAuthRequestProxyAuthorization"
                    [] OTHER -> "HeaderProxyAuthorization"],
     [variant |-> "CookieSession", refreshInterval |-> refreshInterval] >>

\* The last call was WithEndpointConfig with a list of names none of which
\* is a strategy.
OnlyUnrecognizedNames ==
  /\ op.name = "WithEndpointConfig"
  /\ op.arg.AuthnStrategies # <<>>
  /\ RecognizedNames(op.arg.AuthnStrategies) = <<>>

\* C17: Build() installs the default pair exactly when the builder's
\* strategy list is empty at Build time: a builder with at least one
\* strategy gives a chain equal to its list (same strategies, same order,
\* nothing added, whatever the implementation), a builder with none gives
\* the default pair of its implementation, and an endpoint list made only
\* of unrecognized names counts as empty.
C17_DefaultsIffEmpty ==
  Built =>
    /\ b.strategies # <<>> => authz.strategies = b.strategies
    /\ b.strategies = <<>> =>
         authz.strategies = DefaultPair(b.impl, b.config.RefreshInterval)
    /\ OnlyUnrecognizedNames =>
         /\ b.strategies = <<>>
         /\ authz.strategies = DefaultPair(b.impl, b.config.RefreshInterval)

\* A builder whose list is the one strategy a WithStrategyCookie call
\* appended is built with an implementation selected: no default is added.
C17_Witness ==
  /\ Built
  /\ b.impl = AuthzImplAuthRequest
  /\ Len(b.strategies) = 1
  /\ IsCookieSession(b.strategies[1])
  /\ authz.strategies = b.strategies

\* The last call was a WithConfig or WithAuthzConfig made after
\* WithEndpointConfig, with the strategies that call created still in place.
ConfigAfterEndpoint ==
  /\ op.name \in {"WithConfig", "WithAuthzConfig"}
  /\ op.before # Nil

\* C18: a WithConfig or WithAuthzConfig call made after WithEndpointConfig
\* does not update the CookieSession strategies already created: they keep
\* the interval the builder held when WithEndpointConfig ran, the builder
\* and the Authz built from it carry the RefreshInterval of the later call,
\* and the chain built is the list as it was.
C18_ConfigAfterEndpoint ==
  ConfigAfterEndpoint =>
    /\ \A i \in 1..Len(b.strategies) :
         IsCookieSession(b.strategies[i]) =>
           b.strategies[i].refreshInterval = op.before.refreshInterval
    /\ op.name = "WithAuthzConfig" =>
         b.config.RefreshInterval = op.arg.RefreshInterval
    /\ (op.name = "WithConfig" /\ op.arg # Nil) =>
         /\ op.arg.AuthenticationBackend.RefreshInterval = ProfileRefreshDisabled
              => b.config.RefreshInterval = Second * (-1)
         /\ op.arg.AuthenticationBackend.RefreshInterval = ProfileRefreshAlways
              => b.config.RefreshInterval = Second * 0
    /\ (op.name = "WithConfig" /\ op.arg = Nil) =>
         b.config.RefreshInterval = op.before.refreshInterval
    /\ Built =>
         /\ authz.config.RefreshInterval = b.config.RefreshInterval
         /\ b.strategies # <<>> => authz.strategies = b.strategies

\* WithEndpointConfig on a fresh builder created a CookieSession strategy,
\* WithAuthzConfig then gave a positive interval: the Authz built has the
\* positive interval in its config and Disabled in its CookieSession.
C18_Witness ==
  /\ Built
  /\ op.name = "WithAuthzConfig"
  /\ op.before # Nil
  /\ op.before.refreshInterval = Second * (-1)
  /\ authz.config.RefreshInterval = Second * MaxInterval
  /\ \E i \in 1..Len(authz.strategies) :
       /\ IsCookieSession(authz.strategies[i])
       /\ authz.strategies[i].refreshInterval = Second * (-1)
  /\ b.strategies # <<>>

\* A step that is a call on the builder: Build() changes neither b nor op.
BuilderCall == b' # b \/ op' # op

\* C19: the builder's strategy list is empty on a new builder, is the
\* arguments of WithStrategies after that call whatever it held before, and
\* grows by exactly one strategy at its end with each WithStrategyCookie,
\* WithStrategyAuthorization or WithStrategyProxyAuthorization call; so
\* after any sequence of these calls it is the arguments of the most recent
\* WithStrategies followed by the later appends in call order, and Build()
\* passes a list that is not empty to the Authz unchanged.
C19_StrategyList ==
  /\ [](op.name = "NewAuthzBuilder" => b.strategies = <<>>)
  /\ [][/\ (BuilderCall /\ op'.name = "WithStrategies") =>
             b'.strategies = op'.arg
        /\ (BuilderCall /\ op'.name = "WithStrategyCookie") =>
             b'.strategies =
               b.strategies \o
                 << [variant |-> "CookieSession", refreshInterval |-> op'.arg] >>
        /\ (BuilderCall /\ op'.name = "WithStrategyAuthorization") =>
             b'.strategies =
               b.strategies \o << [variant |-> "HeaderAuthorization"] >>
        /\ (BuilderCall /\ op'.name = "WithStrategyProxyAuthorization") =>
             b'.strategies =
               b.strategies \o << [variant |-> "HeaderProxyAuthorization"] >>
        /\ (authz' # authz /\ b.strategies # <<>>) =>
             authz'.strategies = b.strategies]_vars

\* WithStrategies gave one strategy, WithStrategyProxyAuthorization added
\* one, and the Authz was built with the two in this order.
C19_Witness ==
  /\ Built
  /\ op.name = "WithStrategyProxyAuthorization"
  /\ b.strategies = << NewHeaderAuthorizationAuthnStrategy,
                       NewHeaderProxyAuthorizationAuthnStrategy >>
  /\ authz.strategies = b.strategies

\* The implementation a WithImplementation* call selects.
SelectedBy(name) ==
  CASE name = "WithImplementationLegacy" -> AuthzImplLegacy
    [] name = "WithImplementationForwardAuth" -> AuthzImplForwardAuth
    [] name = "WithImplementationAuthRequest" -> AuthzImplAuthRequest

\* C20: each builder call changes only its own part of the builder: a
\* WithImplementation* call sets the implementation to its own, whatever it
\* was, and leaves config and strategies; WithConfig and WithAuthzConfig
\* leave implementation and strategies; WithConfig(nil) changes nothing;
\* WithEndpointConfig leaves the config; Build() changes no builder field,
\* and a Build() that follows a Build() returns an equal Authz.
C20_Frame ==
  /\ [](Built => Build(b) = authz)
  /\ [][/\ (BuilderCall /\ op'.name \in {"WithImplementationLegacy",
                                        "WithImplementationForwardAuth",
                                        "WithImplementationAuthRequest"}) =>
             /\ b'.impl = SelectedBy(op'.name)
             /\ b'.config = b.config
             /\ b'.strategies = b.strategies
        /\ (BuilderCall /\ op'.name \in {"WithConfig", "WithAuthzConfig"}) =>
             /\ b'.impl = b.impl
             /\ b'.strategies = b.strategies
        /\ (BuilderCall /\ op'.name = "WithConfig" /\ op'.arg = Nil) => b' = b
        /\ (BuilderCall /\ op'.name = "WithEndpointConfig") =>
             b'.config = b.config
        /\ authz' # authz => (b' = b /\ authz' = Build(b'))]_vars

\* WithConfig(nil) on a builder that has a config with domains, strategies
\* and an implementation: all are kept, and the builder is then built.
C20_Witness ==
  /\ Built
  /\ op.name = "WithConfig"
  /\ op.arg = Nil
  /\ b.config.Domains # <<>>
  /\ b.strategies # <<>>
  /\ b.impl = AuthzImplForwardAuth

StartupDone == startup.pc = "done"
StartupSuccess == Unwrapped(ErrNil)

\* C21: StartupCheck always terminates and orders its steps.  With errOpen
\* set it returns the error opening the database and never pings.
\* Otherwise it pings at most 19 times and no ping follows a successful
\* one.  When all 19 pings fail it returns the error pinging the database,
\* and neither SchemaEncryptionCheckKey nor SchemaMigrate is called.
\* SchemaMigrate is only called after a successful ping, and when it
\* returns ErrSchemaAlreadyUpToDate StartupCheck returns nil.
C21_StartupCheck ==
  /\ <>StartupDone
  /\ [](/\ startup.pings <= PingAttempts
        /\ startup.errOpen # ErrNil => startup.pings = 0
        /\ (StartupDone /\ startup.errOpen # ErrNil) =>
             startup.ret =
               Return(Errorf("error opening database", startup.errOpen))
        /\ (StartupDone /\ startup.errOpen = ErrNil /\ ~startup.pingOK) =>
             /\ startup.pings = PingAttempts
             /\ startup.ret.value.msg = "error pinging database"
             /\ startup.ret.value.err \in PingResults \ {ErrNil}
        /\ ~startup.pingOK =>
             /\ startup.encryptionCheck = NotCalled
             /\ startup.migrate = NotCalled
        /\ (StartupDone /\ startup.migrate = ErrSchemaAlreadyUpToDate) =>
             startup.ret = Return(StartupSuccess))
  /\ [][/\ startup.pingOK => startup'.pings = startup.pings
        /\ StartupDone => startup' = startup
        /\ startup'.migrate # startup.migrate =>
             startup.pingOK /\ startup.err \in
               {ErrNil, ErrSchemaEncryptionVersionUnsupported}]_vars

C21_Witness ==
  /\ StartupDone
  /\ startup.pings = PingAttempts
  /\ startup.sleeps = PingAttempts - 1
  /\ startup.pingOK
  /\ startup.encryptionCheck = ErrSchemaEncryptionVersionUnsupported
  /\ startup.migrate = ErrSchemaAlreadyUpToDate
  /\ startup.ret = Return(StartupSuccess)

====
